---- MODULE Spec2Model ----
(***************************************************************************)
(* A model of the substreams engine core: the back-processing work planner *)
(* (orchestrator), the block range algebra, the WASM instance's execution  *)
(* contract, the mapper and store module executors and the store's max     *)
(* merge operations.                                                       *)
(*                                                                         *)
(* Block numbers are Go uint64 values.  The model draws them from small    *)
(* ranges of naturals far below 2^64, so no sum of the planner or of       *)
(* Range.Split wraps.                                                      *)
(***************************************************************************)
EXTENDS Integers, Sequences, FiniteSets, TLC

VARIABLES
    moduleInitialBlock, \* the module descriptor's initialBlock
    snapshots,          \* the Snapshots index: [Completes, Partials]
    plan,               \* the last work planner call: its arguments and its WorkUnit
    split,              \* a Range.Split call: its arguments, locals and result
    inst,               \* a wasm.Instance and its Execute calls
    wasmInputs,         \* BaseExecutor.wasmInputs: the module's bound inputs
    cache,              \* BaseExecutor.cache: the module's current output cache chunk
    vals,               \* the pipeline's per-block values map: name -> bytes
    mapperOutput,       \* MapperModuleExecutor.mapperOutput
    currentInstance,    \* wasmModule.CurrentInstance: nil, or the instance's block
    run,                \* the executor run that just returned: its path and error
    firstCached,        \* per block: the bytes its first successful run cached
    outputStore,        \* StoreModuleExecutor.outputStore and the block being processed
    storeLog,           \* per block: what the store run that missed the cache did
    written,            \* the SetMax writes so far: per key the numbers seen, and the last write
    client              \* a substreams client: its config and the NewSubstreamsClient call

planVars == <<moduleInitialBlock, snapshots, plan>>

storeVars == <<outputStore, storeLog, written>>

execVars == <<wasmInputs, cache, vals, mapperOutput, currentInstance, run, firstCached,
              outputStore, storeLog, written>>

vars == <<moduleInitialBlock, snapshots, plan, split, inst, client,
          wasmInputs, cache, vals, mapperOutput, currentInstance, run, firstCached,
          outputStore, storeLog, written>>

(***************************************************************************)
(* Bounds.                                                                 *)
(***************************************************************************)
MaxBlock == 5
MaxInterval == 2
MaxInitBlock == 1
MaxCompletes == 2
MaxPartials == 2
MaxChunk == 3
MaxExitCode == 2
MaxExecutes == 2
CacheInterval == 2
MaxChunks == 2
MaxScript == 2
MaxWrites == 3

(***************************************************************************)
(* block.Range                                                             *)
(***************************************************************************)
\* A nil pointer is the empty sequence, a non-nil pointer the one-element
\* sequence of the value it points to.
Nil == <<>>

NewRange(startBlock, exclusiveEndBlock) ==
    [StartBlock |-> startBlock, ExclusiveEndBlock |-> exclusiveEndBlock]

(***************************************************************************)
(* orchestrator.Snapshots                                                  *)
(***************************************************************************)
\* The complete snapshots whose end is at or below blockNum.
CompletesBefore(snaps, blockNum) ==
    {c \in snaps.Completes : c.ExclusiveEndBlock <= blockNum}

\* The latest complete snapshot S with S.end <= blockNum, or nil.
LastCompleteSnapshotBefore(snaps, blockNum) ==
    IF CompletesBefore(snaps, blockNum) = {}
    THEN Nil
    ELSE <<CHOOSE c \in CompletesBefore(snaps, blockNum) :
               \A d \in CompletesBefore(snaps, blockNum) :
                   d.ExclusiveEndBlock <= c.ExclusiveEndBlock>>

\* Whether a partial file with exactly the range r exists on storage.
ContainsPartial(snaps, r) ==
    \E file \in snaps.Partials :
        /\ file.StartBlock = r.StartBlock
        /\ file.ExclusiveEndBlock = r.ExclusiveEndBlock

(***************************************************************************)
(* orchestrator.WorkUnit and StoresSplitWork                               *)
(***************************************************************************)
minOfNoClamp(a, b) == a

minOf(a, b) == IF a < b THEN a ELSE b

EmptyWorkUnit(modName) ==
    [modName |-> modName,
     initialStoreFile |-> Nil,
     partialsMissing |-> <<>>,
     partialsPresent |-> <<>>]

classifyPartialSwapped(work, snaps, newPartial) ==
    IF ~ContainsPartial(snaps, newPartial)
    THEN [work EXCEPT !.partialsPresent = Append(@, newPartial)]
    ELSE [work EXCEPT !.partialsMissing = Append(@, newPartial)]

\* The body of the planning loop after newPartial is built.
classifyPartial(work, snaps, newPartial) ==
    IF ~ContainsPartial(snaps, newPartial)
    THEN [work EXCEPT !.partialsMissing = Append(@, newPartial)]
    ELSE [work EXCEPT !.partialsPresent = Append(@, newPartial)]

\* for ptr := backProcessStartBlock; ptr < incomingReqStartBlock; { ... }
RECURSIVE storesSplitLoop(_, _, _, _, _)
storesSplitLoop(ptr, storeSaveInterval, incomingReqStartBlock, snaps, work) ==
    IF ~(ptr < incomingReqStartBlock)
    THEN work
    ELSE LET end == minOf(ptr - (ptr % storeSaveInterval) + storeSaveInterval,
                          incomingReqStartBlock)
             newPartial == NewRange(ptr, end)
         IN  storesSplitLoop(end, storeSaveInterval, incomingReqStartBlock, snaps,
                             classifyPartial(work, snaps, newPartial))

storesInitialFileSwapped(modInitBlock, completeSnapshot) ==
    NewRange(completeSnapshot.ExclusiveEndBlock, modInitBlock)

\* work.initialStoreFile = block.NewRange(modInitBlock, completeSnapshot.ExclusiveEndBlock)
storesInitialFile(modInitBlock, completeSnapshot) ==
    NewRange(modInitBlock, completeSnapshot.ExclusiveEndBlock)

\* Whether StoresSplitWork panics instead of returning.
StoresSplitWorkPanics(modInitBlock, incomingReqStartBlock, snaps) ==
    LET completeSnapshot == LastCompleteSnapshotBefore(snaps, incomingReqStartBlock)
    IN  /\ ~(incomingReqStartBlock <= modInitBlock)
        /\ completeSnapshot # Nil
        /\ completeSnapshot[1].ExclusiveEndBlock <= modInitBlock

StoresSplitWork(modName, storeSaveInterval, modInitBlock, incomingReqStartBlock, snaps) ==
    LET work == EmptyWorkUnit(modName)
        completeSnapshot == LastCompleteSnapshotBefore(snaps, incomingReqStartBlock)
    IN  IF incomingReqStartBlock <= modInitBlock
        THEN work
        ELSE IF completeSnapshot # Nil
        THEN LET withInitial ==
                     [work EXCEPT !.initialStoreFile =
                         <<storesInitialFile(modInitBlock, completeSnapshot[1])>>]
             IN  IF completeSnapshot[1].ExclusiveEndBlock = incomingReqStartBlock
                 THEN withInitial
                 ELSE storesSplitLoop(completeSnapshot[1].ExclusiveEndBlock,
                                      storeSaveInterval, incomingReqStartBlock,
                                      snaps, withInitial)
        ELSE storesSplitLoop(modInitBlock, storeSaveInterval,
                             incomingReqStartBlock, snaps, work)

\* for ptr := backProcessStartBlock; ptr < requestStartBlock; { ... }
RECURSIVE mapsSplitLoop(_, _, _, _, _)
mapsSplitLoop(ptr, saveInterval, requestStartBlock, snaps, work) ==
    IF ~(ptr < requestStartBlock)
    THEN work
    ELSE LET end == minOf(ptr - (ptr % saveInterval) + saveInterval, requestStartBlock)
             newPartial == NewRange(ptr, end)
         IN  mapsSplitLoop(end, saveInterval, requestStartBlock, snaps,
                 IF ~ContainsPartial(snaps, newPartial)
                 THEN [work EXCEPT !.partialsMissing = Append(@, newPartial)]
                 ELSE [work EXCEPT !.partialsPresent = Append(@, newPartial)])

MapsSplitWork(modName, saveInterval, requestStartBlock, snaps) ==
    LET work == EmptyWorkUnit(modName)
        completeSnapshot == LastCompleteSnapshotBefore(snaps, requestStartBlock)
    IN  IF completeSnapshot # Nil
        THEN LET withInitial ==
                     [work EXCEPT !.initialStoreFile =
                         <<NewRange(requestStartBlock,
                                    completeSnapshot[1].ExclusiveEndBlock)>>]
             IN  IF completeSnapshot[1].ExclusiveEndBlock = requestStartBlock
                 THEN withInitial
                 ELSE mapsSplitLoop(completeSnapshot[1].ExclusiveEndBlock,
                                    saveInterval, requestStartBlock, snaps,
                                    withInitial)
        ELSE mapsSplitLoop(requestStartBlock, saveInterval, requestStartBlock,
                           snaps, work)

\* Ranges.Merged: neighbours that touch become one range.
RECURSIVE Merged(_)
Merged(ranges) ==
    IF Len(ranges) <= 1 THEN ranges
    ELSE LET front == Merged(SubSeq(ranges, 1, Len(ranges) - 1))
             prevRange == front[Len(front)]
             curRange == ranges[Len(ranges)]
         IN  IF prevRange.ExclusiveEndBlock # curRange.StartBlock
             THEN Append(front, curRange)
             ELSE [front EXCEPT ![Len(front)] =
                      NewRange(prevRange.StartBlock, curRange.ExclusiveEndBlock)]

\* WorkUnit.initialProcessedPartials
initialProcessedPartials(w) == Merged(w.partialsPresent)

BlockRange(r) == [StartBlock |-> r.StartBlock, EndBlock |-> r.ExclusiveEndBlock]

\* The ranges of a module's progress message: the initial store file, then
\* the merged partials present.
processedRanges(unit) ==
    (IF unit.initialStoreFile # Nil
     THEN <<BlockRange(unit.initialStoreFile[1])>> ELSE <<>>)
    \o [i \in 1..Len(initialProcessedPartials(unit)) |->
           BlockRange(initialProcessedPartials(unit)[i])]

\* WorkPlan.ProgressMessages.  The plan is a Go map, so the messages come in
\* no particular order: the model keeps them as a set.
ProgressMessages(p) ==
    {[Name |-> storeName, ProcessedRanges |-> processedRanges(p[storeName])] :
        storeName \in {n \in DOMAIN p : p[n].initialStoreFile # Nil}}

NoCall == [fn |-> "none", saveInterval |-> 0, reqStartBlock |-> 0,
           panicked |-> FALSE, work |-> EmptyWorkUnit(""),
           mapWork |-> EmptyWorkUnit(""), progress |-> Nil]

(***************************************************************************)
(* wasm.Instance: the panic slot and Execute / ExecuteWithArgs             *)
(***************************************************************************)
NoError == [kind |-> "nil", panic |-> Nil, call |-> "none", exitCode |-> 0]

\* What entrypoint.Call returned: no error ("return"), a *sys.ExitError with an
\* exit code ("exit"), or any other error ("trap").
CallOutcomes ==
    {[kind |-> "return", exitCode |-> 0], [kind |-> "trap", exitCode |-> 0]}
        \cup {[kind |-> "exit", exitCode |-> c] : c \in 0..MaxExitCode}

\* The panics a guest records through register_panic.
PanicErrors == {[message |-> m, line |-> l] : m \in {"boom", "oops"}, l \in 1..2}

\* The error Execute and ExecuteWithArgs return, given what Call returned and
\* the instance's panic slot.
executeResult(outcome, panicError) ==
    IF outcome.kind # "return"
    THEN IF outcome.kind = "exit" /\ outcome.exitCode = 0
         THEN NoError
         ELSE IF panicError # Nil
         THEN [kind |-> "panic", panic |-> panicError, call |-> "none", exitCode |-> 0]
         ELSE [kind |-> "wrapped", panic |-> Nil, call |-> outcome.kind,
               exitCode |-> outcome.exitCode]
    ELSE NoError

NewInstance == [pc |-> "ready", method |-> "none", panicError |-> Nil,
                outcome |-> [kind |-> "return", exitCode |-> 0],
                err |-> NoError, executes |-> 0]

\* Execute or ExecuteWithArgs enters the guest's entry point.
ExecuteEnter ==
    /\ inst.pc # "running"
    /\ inst.executes < MaxExecutes
    /\ \E m \in {"Execute", "ExecuteWithArgs"} :
         inst' = [inst EXCEPT !.pc = "running", !.method = m,
                              !.executes = inst.executes + 1]
    /\ UNCHANGED <<planVars, split, client, execVars>>

\* The guest calls the register_panic host function while it runs.
RegisterPanic ==
    /\ inst.pc = "running"
    /\ \E p \in PanicErrors : inst' = [inst EXCEPT !.panicError = <<p>>]
    /\ UNCHANGED <<planVars, split, client, execVars>>

\* entrypoint.Call returns and Execute / ExecuteWithArgs translates its result.
ExecuteReturn ==
    /\ inst.pc = "running"
    /\ \E o \in CallOutcomes :
         inst' = [inst EXCEPT !.pc = "returned", !.outcome = o,
                              !.err = executeResult(o, inst.panicError)]
    /\ UNCHANGED <<planVars, split, client, execVars>>

(***************************************************************************)
(* block.Range: Contains, Size, Split                                      *)
(***************************************************************************)
Contains(r, blockNum) ==
    blockNum >= r.StartBlock /\ blockNum < r.ExclusiveEndBlock

\* Meaningful for StartBlock <= ExclusiveEndBlock; the uint64 difference wraps
\* otherwise.
Size(r) == r.ExclusiveEndBlock - r.StartBlock

\* r.ExclusiveEndBlock-r.StartBlock <= chunkSize in uint64: with the end below
\* the start the difference wraps to a value above every chunk size modelled.
splitFitsOneChunk(r, chunkSize) ==
    /\ r.ExclusiveEndBlock >= r.StartBlock
    /\ r.ExclusiveEndBlock - r.StartBlock <= chunkSize

nextChunkEndNoClamp(currentStart, chunkSize, exclusiveEndBlock) ==
    currentStart + chunkSize

\* currentEnd = currentStart + chunkSize, cut at r.ExclusiveEndBlock.
nextChunkEnd(currentStart, chunkSize, exclusiveEndBlock) ==
    IF currentStart + chunkSize > exclusiveEndBlock
    THEN exclusiveEndBlock
    ELSE currentStart + chunkSize

SplitIdle == [pc |-> "idle", r |-> NewRange(0, 0), chunkSize |-> 0,
              res |-> <<>>, currentStart |-> 0, currentEnd |-> 0]

\* The longest result the model records: a loop that never ends keeps
\* iterating, and the model keeps the first MaxSplitLen entries of its list.
MaxSplitLen == MaxBlock + 2

\* Split up to its loop: the early return, or the loop's first locals.
SplitEnter ==
    /\ split.pc = "idle"
    /\ \E s \in 0..MaxBlock, e \in 0..MaxBlock, k \in 0..MaxChunk :
         LET r == NewRange(s, e)
         IN  split' = IF splitFitsOneChunk(r, k)
                      THEN [pc |-> "done", r |-> r, chunkSize |-> k, res |-> <<r>>,
                            currentStart |-> 0, currentEnd |-> 0]
                      ELSE [pc |-> "loop", r |-> r, chunkSize |-> k, res |-> <<>>,
                            currentStart |-> s, currentEnd |-> s + k]
    /\ UNCHANGED <<planVars, inst, client, execVars>>

\* One iteration of Split's loop.
SplitIterate ==
    /\ split.pc = "loop"
    /\ LET res == IF Len(split.res) < MaxSplitLen
                  THEN Append(split.res, NewRange(split.currentStart, split.currentEnd))
                  ELSE split.res
       IN  split' = IF split.currentEnd >= split.r.ExclusiveEndBlock
                    THEN [split EXCEPT !.pc = "done", !.res = res]
                    ELSE [split EXCEPT
                            !.res = res,
                            !.currentStart = split.currentEnd,
                            !.currentEnd = nextChunkEnd(split.currentEnd, split.chunkSize,
                                                        split.r.ExclusiveEndBlock)]
    /\ UNCHANGED <<planVars, inst, client, execVars>>

(***************************************************************************)
(* The planner's states: a snapshots index on storage, then planner calls. *)
(***************************************************************************)
AllRanges == {NewRange(s, e) : s \in 0..MaxBlock, e \in 0..MaxBlock}

BoundedSubsets(S, n) == {T \in SUBSET S : Cardinality(T) <= n}

\* A complete snapshot is [moduleInitialBlock, end) with end above the initial block.
CompleteRanges(init) == {NewRange(init, e) : e \in (init + 1)..MaxBlock}

\* A partial file covers at most one save interval.
PartialRanges ==
    {r \in AllRanges : /\ r.StartBlock < r.ExclusiveEndBlock
                       /\ r.ExclusiveEndBlock - r.StartBlock <= MaxInterval}

\* Scenario S4 of the specification.
S4Snapshots == [Completes |-> {}, Partials |-> {NewRange(1000, 2000)}]

IsS4 == moduleInitialBlock = 0 /\ snapshots = S4Snapshots

\* The arguments a caller passes with the snapshots index at hand.
PlanArgs ==
    IF snapshots = S4Snapshots
    THEN {[saveInterval |-> 1000, reqStartBlock |-> 3500]}
    ELSE [saveInterval : 1..MaxInterval, reqStartBlock : 0..MaxBlock]

\* A work plan is built once per request.
CallStoresSplitWork ==
    /\ plan.fn = "none"
    /\ \E a \in PlanArgs :
         plan' = [fn |-> "StoresSplitWork",
                  saveInterval |-> a.saveInterval,
                  reqStartBlock |-> a.reqStartBlock,
                  panicked |-> StoresSplitWorkPanics(moduleInitialBlock,
                                                     a.reqStartBlock, snapshots),
                  work |-> IF StoresSplitWorkPanics(moduleInitialBlock,
                                                    a.reqStartBlock, snapshots)
                           THEN EmptyWorkUnit("m")
                           ELSE StoresSplitWork("m", a.saveInterval, moduleInitialBlock,
                                                a.reqStartBlock, snapshots),
                  mapWork |-> EmptyWorkUnit(""),
                  progress |-> Nil]
    /\ UNCHANGED <<moduleInitialBlock, snapshots, split, client, inst, execVars>>

\* The work of a mapper module is planned for the same request.
CallMapsSplitWork ==
    /\ plan.fn = "StoresSplitWork"
    /\ ~plan.panicked
    /\ plan' = [plan EXCEPT
                  !.fn = "MapsSplitWork",
                  !.mapWork = MapsSplitWork("mapper", plan.saveInterval,
                                            plan.reqStartBlock, snapshots)]
    /\ UNCHANGED <<moduleInitialBlock, snapshots, split, client, inst, execVars>>

\* The request's work plan: the store module and its work unit.
RequestWorkPlan == [n \in {plan.work.modName} |-> plan.work]

\* The orchestrator reports the plan's progress.
CallProgressMessages ==
    /\ plan.fn = "MapsSplitWork"
    /\ plan.progress = Nil
    /\ plan' = [plan EXCEPT !.progress = <<ProgressMessages(RequestWorkPlan)>>]
    /\ UNCHANGED <<moduleInitialBlock, snapshots, split, client, inst, execVars>>

(***************************************************************************)
(* Byte strings, the per-block values map and the output cache             *)
(***************************************************************************)
\* A Go []byte: nil, or a (possibly empty) sequence of bytes.
NilBytes == [isNil |-> TRUE, data |-> <<>>]

BytesOf(d) == [isNil |-> FALSE, data |-> d]

len(b) == Len(b.data)

\* What a guest passes to the output host function.
OutputBytes == {NilBytes, BytesOf(<<>>), BytesOf(<<1>>), BytesOf(<<2>>)}

\* What the block source or an upstream module puts in the values map.
SourceBytes == {NilBytes, BytesOf(<<>>), BytesOf(<<1>>)}

ModuleName == "m"

ValueNames == {"src", ModuleName}

NoValues == [n \in ValueNames |-> NilBytes]

\* The blocks of the cache chunk that starts at start.
ChunkBlocks(start) == start..(start + CacheInterval - 1)

\* An empty cache chunk covering [start, start + CacheInterval).
EmptyCache(start) == [start |-> start, kv |-> [b \in ChunkBlocks(start) |-> Nil]]

\* OutputCache.Get: nil when the block has no entry, else the entry's payload.
cacheGet(c, clockNumber) ==
    IF clockNumber \in DOMAIN c.kv THEN c.kv[clockNumber] ELSE Nil

\* OutputCache.Set: records the payload of the block (of the current chunk).
cacheSet(c, clockNumber, data) == [c EXCEPT !.kv[clockNumber] = <<data>>]

\* OutputCache.save: seals the chunk and advances to the next range.
cacheSave(c) == EmptyCache(c.start + CacheInterval)

(***************************************************************************)
(* pipeline.BaseExecutor.wasmCall                                          *)
(***************************************************************************)
SourceInput(name) ==
    [Type |-> "InputSource", Name |-> name, Deltas |-> FALSE, StreamData |-> NilBytes]

\* A store handle bound as an input, in get mode or in deltas mode.
StoreInput(name, deltas) ==
    [Type |-> "InputStore", Name |-> name, Deltas |-> deltas, StreamData |-> NilBytes]

OutputStoreInput(name) ==
    [Type |-> "OutputStore", Name |-> name, Deltas |-> FALSE, StreamData |-> NilBytes]

NoErr == [kind |-> "none", block |-> 0, module |-> ""]

\* The for loop over e.wasmInputs: binds the stream data and computes hasInput.
RECURSIVE wasmCallBindInputs(_, _, _, _)
wasmCallBindInputs(inputs, v, i, acc) ==
    IF i > Len(inputs)
    THEN acc
    ELSE LET input == inputs[i]
             val == v[input.Name]
         IN  wasmCallBindInputs(inputs, v, i + 1,
                 CASE input.Type = "InputSource" ->
                          IF len(val) # 0
                          THEN [hasInput |-> TRUE,
                                inputs |-> [acc.inputs EXCEPT ![i].StreamData = val]]
                          ELSE [hasInput |-> acc.hasInput,
                                inputs |-> [acc.inputs EXCEPT ![i].StreamData = NilBytes]]
                   [] input.Type = "InputStore" -> [acc EXCEPT !.hasInput = TRUE]
                   [] input.Type = "OutputStore" -> acc)

\* What one WASM execution does: whether NewInstance fails, the panic the guest
\* records, what entrypoint.Call returns, the bytes the guest outputs, whether
\* Heap.Clear fails and whether the cache's Set fails afterwards.
GuestPanic == [message |-> "boom", line |-> 1]

GuestRuns ==
    {g \in [newInstanceErr : BOOLEAN, panic : {Nil, <<GuestPanic>>},
            outcome : CallOutcomes, output : OutputBytes,
            heapClearErr : BOOLEAN, cacheSetErr : BOOLEAN] :
        /\ g.newInstanceErr =>
             /\ ~g.heapClearErr /\ ~g.cacheSetErr /\ g.panic = Nil
             /\ g.outcome.kind = "return" /\ g.output = NilBytes
        /\ g.heapClearErr =>
             /\ ~g.cacheSetErr /\ g.panic = Nil
             /\ g.outcome.kind = "return" /\ g.output = NilBytes
        /\ g.cacheSetErr => g.panic = Nil /\ g.outcome.kind = "return"
        /\ executeResult(g.outcome, g.panic) # NoError => g.output = NilBytes}

unwrappedError(kind, clockNumber, moduleName) ==
    [kind |-> kind, block |-> 0, module |-> ""]

\* fmt.Errorf("block %d: module %q: ...", clock.Number, e.moduleName, ...)
executionError(kind, clockNumber, moduleName) ==
    [kind |-> kind, block |-> clockNumber, module |-> moduleName]

\* wasmCall: the instance it returns (nil when execution was skipped or failed),
\* its error, the inputs as bound, whether NewInstance was called and the
\* module's current instance afterwards.
wasmCall(moduleName, inputs, v, clockNumber, current, g) ==
    LET bound == wasmCallBindInputs(inputs, v, 1, [hasInput |-> FALSE, inputs |-> inputs])
        failed(kind, cur) ==
            [instance |-> Nil,
             err |-> executionError(kind, clockNumber, moduleName),
             inputs |-> bound.inputs, newInstance |-> TRUE, current |-> cur]
    IN  IF bound.hasInput
        THEN IF g.newInstanceErr
             THEN [instance |-> Nil,
                   err |-> [kind |-> "new wasm instance", block |-> 0, module |-> ""],
                   inputs |-> bound.inputs, newInstance |-> TRUE, current |-> current]
             ELSE IF executeResult(g.outcome, g.panic) # NoError
             THEN failed("wasm execution failed", <<clockNumber>>)
             ELSE IF g.heapClearErr
             THEN failed("wasm heap clear failed", <<clockNumber>>)
             ELSE [instance |-> <<[returnValue |-> g.output]>>, err |-> NoErr,
                   inputs |-> bound.inputs, newInstance |-> TRUE,
                   current |-> <<clockNumber>>]
        ELSE [instance |-> Nil, err |-> NoErr, inputs |-> bound.inputs,
              newInstance |-> FALSE, current |-> current]

(***************************************************************************)
(* pipeline.MapperModuleExecutor                                           *)
(***************************************************************************)
NoRun == [ran |-> FALSE, block |-> 0, hit |-> FALSE, newInstance |-> FALSE,
          cacheWrite |-> FALSE, err |-> NoErr, priorSuccess |-> FALSE, pre |-> Nil,
          failedAt |-> Nil]

\* The run that just returned failed in instance.Execute or in Heap.Clear.
ExecutionFailed ==
    /\ run.ran
    /\ run.err.kind \in {"wasm execution failed", "wasm heap clear failed"}

mapperHitKeepsOutput(before, output) == before

\* e.mapperOutput = output, on a cache hit.
mapperHitOutput(before, output) == output

\* wasmMapCall after wasmCall returned no error: the module's output.
wasmMapCallOutput(vm) ==
    IF vm # Nil THEN vm[1].returnValue ELSE NilBytes

\* MapperModuleExecutor.moduleOutputData: nil, or the MapOutput message.
mapperModuleOutputData(output) ==
    IF ~output.isNil
    THEN <<[TypeUrl |-> "type.googleapis.com/", Value |-> output]>>
    ELSE Nil

\* The pipeline runs the mapper for a block of the current cache chunk.
MapperRun ==
    /\ run.err = NoErr
    /\ \E b \in ChunkBlocks(cache.start) :
         LET got == cacheGet(cache, b)
             log == [NoRun EXCEPT !.ran = TRUE, !.block = b,
                                  !.priorSuccess = (firstCached[b] # Nil),
                                  !.failedAt = IF run.ran THEN Nil ELSE run.failedAt]
         IN  IF got # Nil
             THEN /\ mapperOutput' = mapperHitOutput(mapperOutput, got[1])
                  /\ run' = [log EXCEPT !.hit = TRUE]
                  /\ UNCHANGED <<wasmInputs, cache, vals, currentInstance, firstCached>>
             ELSE \E g \in GuestRuns :
                  LET call == wasmCall(ModuleName, wasmInputs, vals, b,
                                       currentInstance, g)
                      out == wasmMapCallOutput(call.instance)
                  IN  IF call.err # NoErr
                      THEN /\ run' = [log EXCEPT !.newInstance = call.newInstance,
                                                 !.err = call.err]
                           /\ wasmInputs' = call.inputs
                           /\ currentInstance' = call.current
                           /\ UNCHANGED <<cache, vals, mapperOutput, firstCached>>
                      ELSE /\ wasmInputs' = call.inputs
                           /\ currentInstance' = call.current
                           /\ vals' = [vals EXCEPT ![ModuleName] = out]
                           /\ mapperOutput' = out
                           /\ IF g.cacheSetErr
                              THEN /\ run' = [log EXCEPT
                                                !.newInstance = call.newInstance,
                                                !.err = [kind |-> "setting mapper output to cache",
                                                         block |-> b, module |-> ""]]
                                   /\ UNCHANGED <<cache, firstCached>>
                              ELSE /\ run' = [log EXCEPT
                                                !.newInstance = call.newInstance,
                                                !.cacheWrite = TRUE]
                                   /\ cache' = cacheSet(cache, b, mapperOutput')
                                   /\ firstCached' =
                                         [firstCached EXCEPT ![b] = <<mapperOutput'>>]
    /\ UNCHANGED <<planVars, split, client, inst, storeVars>>

\* The pipeline clears the per-block values map and puts the block's source
\* bytes in it.
WipeValues ==
    /\ run.err = NoErr
    /\ \E src \in SourceBytes : vals' = [NoValues EXCEPT !["src"] = src]
    /\ run' = NoRun
    /\ UNCHANGED <<wasmInputs, cache, mapperOutput, currentInstance, firstCached>>
    /\ UNCHANGED <<planVars, split, client, inst, storeVars>>

\* MapperModuleExecutor.Reset
MapperReset ==
    /\ run.err = NoErr
    /\ currentInstance' = Nil
    /\ run' = NoRun
    /\ UNCHANGED <<wasmInputs, cache, vals, mapperOutput, firstCached>>
    /\ UNCHANGED <<planVars, split, client, inst, storeVars>>

\* After a run returned an error the request ends; a new pipeline over the
\* same cache goes on from there.
MapperResume ==
    /\ run.err # NoErr
    /\ run' = [NoRun EXCEPT !.failedAt = IF ExecutionFailed THEN <<run.block>> ELSE Nil]
    /\ currentInstance' = Nil
    /\ UNCHANGED <<wasmInputs, cache, vals, mapperOutput, firstCached>>
    /\ UNCHANGED <<planVars, split, client, inst, storeVars>>

\* The pipeline seals the cache chunk at a save-interval boundary.
CacheSave ==
    /\ run.err = NoErr
    /\ cache.start + CacheInterval < CacheInterval * MaxChunks
    /\ cache' = cacheSave(cache)
    /\ firstCached' = [b \in DOMAIN firstCached |-> Nil]
    /\ run' = NoRun
    /\ UNCHANGED <<wasmInputs, vals, mapperOutput, currentInstance>>
    /\ UNCHANGED <<planVars, split, client, inst, storeVars>>

MapperConfigs ==
    {<<SourceInput("src")>>,
     <<SourceInput("src"), StoreInput("st", FALSE)>>,
     <<SourceInput("src"), StoreInput("st", TRUE)>>}

(***************************************************************************)
(* state.Store: kv, the delta journal and ApplyDelta                       *)
(***************************************************************************)
\* Store keys are short strings, written as sequences of characters.
Keys == {<<1>>, <<1, 2>>}

\* The values a guest writes: an empty value and a one-byte value.
WrittenValues == {BytesOf(<<>>), BytesOf(<<7>>)}

EmptyKV == [k \in Keys |-> Nil]

HasPrefix(key, prefix) ==
    /\ Len(prefix) <= Len(key)
    /\ SubSeq(key, 1, Len(prefix)) = prefix

\* Store.ApplyDelta: create and update write the new value, delete removes
\* the key.
ApplyDelta(kv, delta) ==
    CASE delta.Operation \in {"CREATE", "UPDATE"} ->
             [kv EXCEPT ![delta.Key] = <<delta.NewValue>>]
      [] delta.Operation = "DELETE" -> [kv EXCEPT ![delta.Key] = Nil]

RECURSIVE ApplyDeltas(_, _)
ApplyDeltas(kv, deltas) ==
    IF deltas = <<>> THEN kv
    ELSE ApplyDeltas(ApplyDelta(kv, Head(deltas)), Tail(deltas))

\* Store.Set: one create or update delta, applied and appended to the journal.
storeSet(s, ord, key, value) ==
    LET old == s.kv[key]
        delta == IF old # Nil
                 THEN [Operation |-> "UPDATE", Ordinal |-> ord, Key |-> key,
                       OldValue |-> old[1], NewValue |-> value]
                 ELSE [Operation |-> "CREATE", Ordinal |-> ord, Key |-> key,
                       OldValue |-> NilBytes, NewValue |-> value]
    IN  [s EXCEPT !.kv = ApplyDelta(s.kv, delta), !.Deltas = Append(@, delta)]

\* The keys of kv that begin with prefix, shortest first.
RECURSIVE KeysWithPrefix(_, _, _)
KeysWithPrefix(kv, prefix, n) ==
    IF n > 2 THEN <<>>
    ELSE LET key == [i \in 1..n |-> i]
         IN  (IF key \in Keys /\ kv[key] # Nil /\ HasPrefix(key, prefix)
              THEN <<key>> ELSE <<>>) \o KeysWithPrefix(kv, prefix, n + 1)

\* Store.DeletePrefix: one delete delta per key that begins with prefix.
RECURSIVE storeDeleteKeys(_, _, _)
storeDeleteKeys(s, ord, keys) ==
    IF keys = <<>> THEN s
    ELSE LET key == Head(keys)
             delta == [Operation |-> "DELETE", Ordinal |-> ord, Key |-> key,
                       OldValue |-> s.kv[key][1], NewValue |-> NilBytes]
         IN  storeDeleteKeys(
                 [s EXCEPT !.kv = ApplyDelta(s.kv, delta),
                           !.Deltas = Append(@, delta)],
                 ord, Tail(keys))

storeDeletePrefix(s, ord, prefix) ==
    storeDeleteKeys(s, ord, KeysWithPrefix(s.kv, prefix, 1))

\* The host calls one guest execution makes on its output store.
GuestWrites ==
    {[op |-> "set", key |-> k, value |-> v] : k \in Keys, v \in WrittenValues}
    \cup {[op |-> "deletePrefix", key |-> k, value |-> NilBytes] : k \in Keys}

GuestScripts == UNION {[1..n -> GuestWrites] : n \in 0..MaxScript}

\* What one execution of a store module does besides its host calls: it
\* succeeds, or one of NewInstance, Execute, Heap.Clear and the cache's Set fails.
StoreGuestRuns ==
    {g \in GuestRuns : /\ g.output = NilBytes /\ g.panic = Nil
                       /\ g.outcome.kind \in {"return", "trap"}}

\* The store after the guest's host calls, the i-th with ordinal i - 1.
RECURSIVE applyScript(_, _, _)
applyScript(s, script, i) ==
    IF i > Len(script) THEN s
    ELSE LET w == script[i]
         IN  applyScript(IF w.op = "set"
                         THEN storeSet(s, i - 1, w.key, w.value)
                         ELSE storeDeletePrefix(s, i - 1, w.key),
                         script, i + 1)

(***************************************************************************)
(* pbsubstreams.StoreDeltas on the wire                                    *)
(***************************************************************************)
\* proto.Marshal of one delta: a bytes field keeps its content only, an empty
\* one is left out of the encoding.
marshalDelta(delta) ==
    [Operation |-> delta.Operation, Ordinal |-> delta.Ordinal, Key |-> delta.Key,
     OldValue |-> delta.OldValue.data, NewValue |-> delta.NewValue.data]

\* proto.Unmarshal of one delta: a bytes field absent from the encoding is nil.
unmarshalDelta(wire) ==
    [Operation |-> wire.Operation, Ordinal |-> wire.Ordinal, Key |-> wire.Key,
     OldValue |-> IF wire.OldValue = <<>> THEN NilBytes ELSE BytesOf(wire.OldValue),
     NewValue |-> IF wire.NewValue = <<>> THEN NilBytes ELSE BytesOf(wire.NewValue)]

marshalDeltas(deltas) == [i \in 1..Len(deltas) |-> marshalDelta(deltas[i])]

unmarshalDeltas(data) == [i \in 1..Len(data) |-> unmarshalDelta(data[i])]

(***************************************************************************)
(* pipeline.StoreModuleExecutor                                            *)
(***************************************************************************)
\* The block source's bytes for a block of the store's pipeline.
StoreSourceBytes == {NilBytes, BytesOf(<<1>>)}

\* The kv of the snapshot the store is rehydrated from at the chunk's start.
StoreSnapshots == {EmptyKV, [EmptyKV EXCEPT ![<<1>>] = <<BytesOf(<<7>>)>>]}

AnyFailure(g) ==
    \/ g.newInstanceErr \/ g.heapClearErr \/ g.cacheSetErr
    \/ executeResult(g.outcome, g.panic) # NoError

NewStore == [kv |-> EmptyKV, Deltas |-> <<>>, next |-> 0, snapshot |-> EmptyKV,
             updatePolicy |-> "UNSET", valueType |-> ""]

NoStoreLog == [b \in 0..(CacheInterval * MaxChunks - 1) |-> Nil]

storeHitSkipsApply(kv, deltas) == kv

\* for _, delta := range deltas.Deltas { e.outputStore.ApplyDelta(delta) }
storeHitApply(kv, deltas) == ApplyDeltas(kv, deltas)

\* StoreModuleExecutor.moduleOutputData: nil, or the StoreDeltas message.
storeModuleOutputData(s) ==
    IF Len(s.Deltas) # 0 THEN <<[Deltas |-> s.Deltas]>> ELSE Nil

\* The pipeline runs the store module for the block it is processing.
StoreRun ==
    /\ run.err = NoErr
    /\ ~run.ran
    /\ LET b == outputStore.next
           got == cacheGet(cache, b)
           log == [NoRun EXCEPT !.ran = TRUE, !.block = b,
                                !.priorSuccess = (storeLog[b] # Nil),
                                !.pre = <<outputStore.kv>>,
                                !.failedAt = IF run.ran THEN Nil ELSE run.failedAt]
       IN  IF got # Nil
           THEN LET deltas == unmarshalDeltas(got[1])
                IN  /\ outputStore' =
                          [outputStore EXCEPT
                             !.Deltas = deltas,
                             !.kv = storeHitApply(outputStore.kv, deltas)]
                    /\ run' = [log EXCEPT !.hit = TRUE]
                    /\ UNCHANGED <<wasmInputs, cache, currentInstance, storeLog>>
           ELSE \E g \in StoreGuestRuns :
                \E script \in IF g.outcome.kind = "trap" \/ ~AnyFailure(g)
                              THEN GuestScripts ELSE {<<>>} :
                  LET call == wasmCall(ModuleName, wasmInputs, vals, b,
                                       currentInstance, g)
                      executed == IF call.newInstance /\ ~g.newInstanceErr
                                  THEN applyScript(outputStore, script, 1)
                                  ELSE outputStore
                  IN  /\ wasmInputs' = call.inputs
                      /\ currentInstance' = call.current
                      /\ outputStore' = executed
                      /\ IF call.err # NoErr
                         THEN /\ run' = [log EXCEPT !.newInstance = call.newInstance,
                                                    !.err = call.err]
                              /\ UNCHANGED <<cache, storeLog>>
                         ELSE IF g.cacheSetErr
                         THEN /\ run' = [log EXCEPT
                                           !.newInstance = call.newInstance,
                                           !.err = [kind |-> "setting delta to cache",
                                                    block |-> b, module |-> ""]]
                              /\ UNCHANGED <<cache, storeLog>>
                         ELSE /\ run' = [log EXCEPT
                                           !.newInstance = call.newInstance,
                                           !.cacheWrite = TRUE]
                              /\ cache' = cacheSet(cache, b,
                                                   marshalDeltas(executed.Deltas))
                              /\ storeLog' =
                                    [storeLog EXCEPT ![b] =
                                       <<[pre |-> outputStore.kv,
                                          post |-> executed.kv,
                                          deltas |->
                                             SubSeq(executed.Deltas,
                                                    Len(outputStore.Deltas) + 1,
                                                    Len(executed.Deltas))]>>]
    /\ UNCHANGED <<vals, mapperOutput, firstCached>>
    /\ UNCHANGED <<planVars, split, client, inst, written>>

\* The pipeline finishes a block that is not the last of the cache chunk: the
\* store's journal is reset and the values map is cleared and filled for the
\* next block.
StoreEndBlock ==
    /\ run.err = NoErr
    /\ run.ran
    /\ outputStore.next + 1 < cache.start + CacheInterval
    /\ outputStore' = [outputStore EXCEPT !.Deltas = <<>>, !.next = @ + 1]
    /\ \E src \in StoreSourceBytes : vals' = [NoValues EXCEPT !["src"] = src]
    /\ run' = NoRun
    /\ UNCHANGED <<wasmInputs, cache, mapperOutput, currentInstance, firstCached,
                   storeLog>>
    /\ UNCHANGED <<planVars, split, client, inst, written>>

\* A new pipeline over the same cache chunk, after the previous one stopped
\* or failed: the store is rehydrated from the snapshot at the chunk's start
\* and processing resumes at that block.
StoreRestart ==
    /\ run.ran
    /\ outputStore' = [outputStore EXCEPT !.kv = outputStore.snapshot,
                                          !.Deltas = <<>>,
                                          !.next = cache.start]
    /\ currentInstance' = Nil
    /\ \E src \in StoreSourceBytes : vals' = [NoValues EXCEPT !["src"] = src]
    /\ run' = [NoRun EXCEPT !.failedAt = IF ExecutionFailed THEN <<run.block>> ELSE Nil]
    /\ UNCHANGED <<wasmInputs, cache, mapperOutput, firstCached, storeLog>>
    /\ UNCHANGED <<planVars, split, client, inst, written>>

StoreConfigs == {<<SourceInput("src"), OutputStoreInput(ModuleName)>>}

(***************************************************************************)
(* state.Store: the max merge operations                                   *)
(***************************************************************************)
DigitChars == <<"0", "1", "2", "3", "4", "5", "6", "7", "8", "9">>

DigitOf(c) == CHOOSE d \in 0..9 : DigitChars[d + 1] = c

\* The base-10 text of a natural number.
RECURSIVE FormatNat(_)
FormatNat(n) ==
    IF n < 10 THEN <<DigitChars[n + 1]>>
    ELSE FormatNat(n \div 10) \o <<DigitChars[(n % 10) + 1]>>

RECURSIVE ParseNat(_)
ParseNat(s) ==
    IF s = <<>> THEN 0
    ELSE 10 * ParseNat(SubSeq(s, 1, Len(s) - 1)) + DigitOf(s[Len(s)])

\* fmt.Sprintf("%d", v) and big.Int.String
FormatInt(n) == IF n < 0 THEN <<"-">> \o FormatNat(-n) ELSE FormatNat(n)

\* strconv.ParseInt(s, 10, 64) and big.Int.SetString(s, 10)
ParseInt(s) == IF Head(s) = "-" THEN -ParseNat(Tail(s)) ELSE ParseNat(s)

\* Floating point numbers are counted in halves: h stands for h / 2.  The
\* shortest decimal text of h / 2.
FormatFloat(h) ==
    LET a == IF h < 0 THEN -h ELSE h
    IN  (IF h < 0 THEN <<"-">> ELSE <<>>)
            \o FormatNat(a \div 2)
            \o (IF a % 2 = 1 THEN <<".", "5">> ELSE <<>>)

ParseFloat(s) ==
    LET neg == Head(s) = "-"
        body == IF neg THEN Tail(s) ELSE s
        dots == {i \in 1..Len(body) : body[i] = "."}
        dot == IF dots = {} THEN Len(body) + 1 ELSE CHOOSE i \in dots : TRUE
        a == 2 * ParseNat(SubSeq(body, 1, dot - 1))
               + (IF dots = {} THEN 0 ELSE DigitOf(body[dot + 1]) \div 5)
    IN  IF neg THEN -a ELSE a

\* The store's value type selects the text encoding of its numbers.
IsFloatType(valueType) == valueType \in {"float64", "bigfloat"}

ParseAs(valueType, s) == IF IsFloatType(valueType) THEN ParseFloat(s) ELSE ParseInt(s)

FormatAs(valueType, n) == IF IsFloatType(valueType) THEN FormatFloat(n) ELSE FormatInt(n)

\* Store.GetAt: the value of the key in the current kv, and whether it is there.
GetAt(s, ord, key) ==
    [value |-> IF s.kv[key] # Nil THEN s.kv[key][1] ELSE NilBytes,
     found |-> s.kv[key] # Nil]

maxLastWriteWins(prev, value) == value

\* The candidate if it is strictly larger than the stored number, else the
\* stored number.
maxCandidate(prev, value) == IF value > prev THEN value ELSE prev

\* The four SetMax operations: read, keep the larger number, write its text.
setMax(s, ord, key, value, valueType) ==
    LET got == GetAt(s, ord, key)
        max == IF ~got.found THEN value
               ELSE maxCandidate(ParseAs(valueType, got.value.data), value)
    IN  storeSet(s, ord, key, BytesOf(FormatAs(valueType, max)))

IntCandidates == {-1, 3, 4, 5, 10}

\* In halves: -0.5, 3.5, 4, 5 and 10.
FloatCandidates == {-1, 7, 8, 10, 20}

NoWrites == [seen |-> [k \in Keys |-> {}], wrote |-> [k \in Keys |-> FALSE],
             last |-> Nil]

\* What a SetMax write adds to the record of the writes.  The Go methods
\* return nothing, so no write reports a failure.
Wrote(key, value) ==
    [seen |-> [written.seen EXCEPT ![key] = @ \cup {value}],
     wrote |-> [written.wrote EXCEPT ![key] = TRUE],
     last |-> <<[key |-> key, value |-> value, old |-> outputStore.kv[key],
                 deltasBefore |-> outputStore.Deltas, failed |-> FALSE]>>]

SetMaxInt64 ==
    /\ outputStore.valueType = "int64"
    /\ Len(outputStore.Deltas) < MaxWrites
    /\ \E key \in Keys, value \in IntCandidates :
         /\ outputStore' = setMax(outputStore, Len(outputStore.Deltas), key, value,
                                  "int64")
         /\ written' = Wrote(key, value)
    /\ UNCHANGED <<wasmInputs, cache, vals, mapperOutput, currentInstance, run,
                   firstCached, storeLog>>
    /\ UNCHANGED <<planVars, split, client, inst>>

SetMaxBigInt ==
    /\ outputStore.valueType = "bigint"
    /\ Len(outputStore.Deltas) < MaxWrites
    /\ \E key \in Keys, value \in IntCandidates :
         /\ outputStore' = setMax(outputStore, Len(outputStore.Deltas), key, value,
                                  "bigint")
         /\ written' = Wrote(key, value)
    /\ UNCHANGED <<wasmInputs, cache, vals, mapperOutput, currentInstance, run,
                   firstCached, storeLog>>
    /\ UNCHANGED <<planVars, split, client, inst>>

SetMaxFloat64 ==
    /\ outputStore.valueType = "float64"
    /\ Len(outputStore.Deltas) < MaxWrites
    /\ \E key \in Keys, value \in FloatCandidates :
         /\ outputStore' = setMax(outputStore, Len(outputStore.Deltas), key, value,
                                  "float64")
         /\ written' = Wrote(key, value)
    /\ UNCHANGED <<wasmInputs, cache, vals, mapperOutput, currentInstance, run,
                   firstCached, storeLog>>
    /\ UNCHANGED <<planVars, split, client, inst>>

SetMaxBigFloat ==
    /\ outputStore.valueType = "bigfloat"
    /\ Len(outputStore.Deltas) < MaxWrites
    /\ \E key \in Keys, value \in FloatCandidates :
         /\ outputStore' = setMax(outputStore, Len(outputStore.Deltas), key, value,
                                  "bigfloat")
         /\ written' = Wrote(key, value)
    /\ UNCHANGED <<wasmInputs, cache, vals, mapperOutput, currentInstance, run,
                   firstCached, storeLog>>
    /\ UNCHANGED <<planVars, split, client, inst>>

\* The numbers a key may hold before the writes: none, or one of the tests'
\* existing values (3 and 5; 3.5 and 5 in halves).
InitialNumbers(valueType) == IF IsFloatType(valueType) THEN {7, 10} ELSE {3, 5}

\* A store of the given policy and value type whose keys hold the given
\* numbers (or nothing).
StoreHolding(updatePolicy, valueType, initial) ==
    [NewStore EXCEPT
       !.updatePolicy = updatePolicy,
       !.valueType = valueType,
       !.kv = [k \in Keys |-> IF initial[k] = {} THEN Nil
                              ELSE <<BytesOf(FormatAs(valueType,
                                                      CHOOSE n \in initial[k] : TRUE))>>]]

ExecParked ==
    /\ wasmInputs = <<>>
    /\ cache = EmptyCache(0)
    /\ vals = NoValues
    /\ mapperOutput = NilBytes
    /\ currentInstance = Nil
    /\ run = NoRun
    /\ firstCached = [b \in 0..(CacheInterval * MaxChunks - 1) |-> Nil]
    /\ outputStore = NewStore
    /\ storeLog = NoStoreLog
    /\ written = NoWrites

(***************************************************************************)
(* client: NewSubstreamsClientConfig and NewSubstreamsClient.  A gRPC dial  *)
(* option is modelled by its name, a list of options by a sequence.  The    *)
(* process environment does not change during a call, so both reads of     *)
(* GRPC_XDS_BOOTSTRAP (lines 49 and 63) return the same value.             *)
(***************************************************************************)
Endpoints == {"mainnet:443", "localhost:9000"}

Tokens == {"", "jwt"}

BootstrapFilenames == {"", "xds.json"}

XdsCredentials == "WithTransportCredentials(xds)"

PlaintextCredentials == "WithTransportCredentials(insecure.NewCredentials)"

InsecureTLSCredentials == "WithTransportCredentials(tls InsecureSkipVerify)"

Interceptors == <<"WithUnaryInterceptor(otelgrpc)", "WithStreamInterceptor(otelgrpc)">>

ErrXdsCredentials == "failed to create xDS credentials"

ErrMutuallyExclusive == "option --insecure and --plaintext are mutually exclusive"

ErrExternalClient == "unable to create external gRPC client"

NewSubstreamsClientConfig(endpoint, jwt, insecure, plaintext) ==
    [endpoint |-> endpoint, jwt |-> jwt, insecure |-> insecure, plaintext |-> plaintext]

\* The dialOptions declared at line 66, as the switch of lines 78-87 leaves it.
innerDialOptions(config) ==
    IF config.plaintext THEN <<PlaintextCredentials>>
    ELSE IF config.insecure THEN <<InsecureTLSCredentials>>
    ELSE <<>>

\* The dialOptions declared at line 52 when the block of lines 54-89 is left.
\* The else block assigns only the variable it declares itself at line 66,
\* which goes out of scope at line 89: the outer list is appended to at
\* line 60 alone.
outerDialOptions(config, bootStrapFilename) ==
    IF bootStrapFilename # "" THEN <<XdsCredentials>> ELSE <<>>

NoClient ==
    [config |-> Nil, bootstrap |-> "", called |-> FALSE, panicked |-> FALSE,
     err |-> "", selected |-> <<>>, dial |-> Nil, callOpts |-> <<>>, open |-> FALSE]

\* credsFail: xdscreds.NewClientCredentials returns an error;
\* dialFail: dgrpc.NewExternalClient returns an error.
NewSubstreamsClient(c, credsFail, dialFail) ==
    IF c.config = Nil
    THEN [c EXCEPT !.called = TRUE, !.panicked = TRUE]
    ELSE LET config == c.config[1]
             skipAuth == config.jwt = "" \/ config.plaintext
             dialOptions == outerDialOptions(config, c.bootstrap) \o Interceptors
         IN  IF c.bootstrap # "" /\ credsFail
             THEN [c EXCEPT !.called = TRUE, !.err = ErrXdsCredentials]
             ELSE IF c.bootstrap = "" /\ config.insecure /\ config.plaintext
             THEN [c EXCEPT !.called = TRUE, !.err = ErrMutuallyExclusive]
             ELSE [c EXCEPT
                     !.called = TRUE,
                     !.selected = IF c.bootstrap = "" THEN innerDialOptions(config)
                                  ELSE <<>>,
                     !.dial = <<[endpoint |-> config.endpoint,
                                 dialOptions |-> dialOptions]>>,
                     !.err = IF dialFail THEN ErrExternalClient ELSE "",
                     !.open = ~dialFail,
                     !.callOpts = IF ~dialFail /\ ~skipAuth
                                  THEN <<"PerRPCCredentials(oauth Bearer)">>
                                  ELSE <<>>]

CallNewSubstreamsClientConfig ==
    /\ client.config = Nil
    /\ ~client.called
    /\ \E endpoint \in Endpoints, jwt \in Tokens, insecure \in BOOLEAN,
          plaintext \in BOOLEAN :
         client' = [client EXCEPT
                      !.config = <<NewSubstreamsClientConfig(endpoint, jwt, insecure,
                                                             plaintext)>>]
    /\ UNCHANGED <<planVars, split, inst, execVars>>

CallNewSubstreamsClient ==
    /\ ~client.called
    /\ \E credsFail \in BOOLEAN, dialFail \in BOOLEAN :
         client' = NewSubstreamsClient(client, credsFail, dialFail)
    /\ UNCHANGED <<planVars, split, inst, execVars>>

\* The caller invokes the returned closeFunc, conn.Close.
CloseClient ==
    /\ client.open
    /\ client' = [client EXCEPT !.open = FALSE]
    /\ UNCHANGED <<planVars, split, inst, execVars>>

(***************************************************************************)
(* Specifications: one per component, the other components at rest.        *)
(***************************************************************************)
PlanParked ==
    /\ moduleInitialBlock = 0
    /\ snapshots = [Completes |-> {}, Partials |-> {}]
    /\ plan = NoCall

PlanInit ==
    /\ plan = NoCall
    /\ split = SplitIdle
    /\ client = NoClient
    /\ inst = NewInstance
    /\ ExecParked
    /\ \/ /\ moduleInitialBlock \in 0..MaxInitBlock
          /\ \E cs \in BoundedSubsets(CompleteRanges(moduleInitialBlock), MaxCompletes),
                ps \in BoundedSubsets(PartialRanges, MaxPartials) :
                 snapshots = [Completes |-> cs, Partials |-> ps]
       \/ /\ moduleInitialBlock = 0
          /\ snapshots = S4Snapshots

PlanNext == CallStoresSplitWork \/ CallMapsSplitWork \/ CallProgressMessages

SpecPlan == PlanInit /\ [][PlanNext]_vars

SplitInit ==
    /\ split = SplitIdle
    /\ client = NoClient
    /\ PlanParked
    /\ inst = NewInstance
    /\ ExecParked

SplitNext == SplitEnter \/ SplitIterate

SpecSplit == SplitInit /\ [][SplitNext]_vars

\* Split runs on its caller's goroutine: a call inside its loop keeps taking
\* iterations until the loop breaks.
SpecSplitFair == SplitInit /\ [][SplitNext]_vars /\ WF_vars(SplitIterate)

InstanceInit ==
    /\ inst = NewInstance
    /\ PlanParked
    /\ split = SplitIdle
    /\ client = NoClient
    /\ ExecParked

InstanceNext == ExecuteEnter \/ RegisterPanic \/ ExecuteReturn

SpecInstance == InstanceInit /\ [][InstanceNext]_vars

MapperInit ==
    /\ PlanParked
    /\ split = SplitIdle
    /\ client = NoClient
    /\ inst = NewInstance
    /\ wasmInputs \in MapperConfigs
    /\ cache = EmptyCache(0)
    /\ vals = NoValues
    /\ mapperOutput = NilBytes
    /\ currentInstance = Nil
    /\ run = NoRun
    /\ firstCached = [b \in 0..(CacheInterval * MaxChunks - 1) |-> Nil]
    /\ outputStore = NewStore
    /\ storeLog = NoStoreLog
    /\ written = NoWrites

MapperNext == MapperRun \/ WipeValues \/ MapperReset \/ CacheSave \/ MapperResume

SpecMapper == MapperInit /\ [][MapperNext]_vars

StoreExecInit ==
    /\ PlanParked
    /\ split = SplitIdle
    /\ client = NoClient
    /\ inst = NewInstance
    /\ wasmInputs \in StoreConfigs
    /\ cache = EmptyCache(0)
    /\ vals \in {[NoValues EXCEPT !["src"] = src] : src \in StoreSourceBytes}
    /\ mapperOutput = NilBytes
    /\ currentInstance = Nil
    /\ run = NoRun
    /\ firstCached = [b \in 0..(CacheInterval * MaxChunks - 1) |-> Nil]
    /\ outputStore \in {[NewStore EXCEPT !.kv = kv, !.snapshot = kv] : kv \in StoreSnapshots}
    /\ storeLog = NoStoreLog
    /\ written = NoWrites

StoreExecNext == StoreRun \/ StoreEndBlock \/ StoreRestart

SpecStoreExec == StoreExecInit /\ [][StoreExecNext]_vars

StoreInit ==
    /\ PlanParked
    /\ split = SplitIdle
    /\ client = NoClient
    /\ inst = NewInstance
    /\ wasmInputs = <<>>
    /\ cache = EmptyCache(0)
    /\ vals = NoValues
    /\ mapperOutput = NilBytes
    /\ currentInstance = Nil
    /\ run = NoRun
    /\ firstCached = [b \in 0..(CacheInterval * MaxChunks - 1) |-> Nil]
    /\ storeLog = NoStoreLog
    /\ \E updatePolicy \in {"UNSET", "MAX"},
          valueType \in {"int64", "bigint", "float64", "bigfloat"} :
         \E initial \in [Keys -> {{}} \cup {{n} : n \in InitialNumbers(valueType)}] :
            /\ outputStore = StoreHolding(updatePolicy, valueType, initial)
            /\ written = [NoWrites EXCEPT !.seen = initial]

StoreNext == SetMaxInt64 \/ SetMaxBigInt \/ SetMaxFloat64 \/ SetMaxBigFloat

SpecStore == StoreInit /\ [][StoreNext]_vars

ClientInit ==
    /\ PlanParked
    /\ split = SplitIdle
    /\ inst = NewInstance
    /\ ExecParked
    /\ \E bootStrapFilename \in BootstrapFilenames :
         client = [NoClient EXCEPT !.bootstrap = bootStrapFilename]

ClientNext == CallNewSubstreamsClientConfig \/ CallNewSubstreamsClient \/ CloseClient

SpecClient == ClientInit /\ [][ClientNext]_vars

(***************************************************************************)
(* Properties of StoresSplitWork.                                          *)
(***************************************************************************)
StoresPlanned ==
    /\ plan.fn = "StoresSplitWork"
    /\ ~plan.panicked
    /\ plan.reqStartBlock > moduleInitialBlock

SeqToSet(q) == {q[i] : i \in 1..Len(q)}

PlannedRanges(work) == SeqToSet(work.partialsMissing) \cup SeqToSet(work.partialsPresent)

RECURSIVE SortByStart(_)
SortByStart(S) ==
    IF S = {}
    THEN <<>>
    ELSE LET first == CHOOSE x \in S : \A y \in S : x.StartBlock <= y.StartBlock
         IN  <<first>> \o SortByStart(S \ {first})

AscendingStarts(q) ==
    \A i \in 1..(Len(q) - 1) : q[i].StartBlock < q[i + 1].StartBlock

Smaller(a, b) == IF a <= b THEN a ELSE b

MaxOfSet(S) == CHOOSE x \in S : \A y \in S : y <= x

\* The next multiple of interval strictly above ptr.
NextBoundaryAbove(ptr, interval) ==
    CHOOSE m \in (ptr + 1)..(ptr + interval) : m % interval = 0

\* The ends of the complete snapshots at or below the request's start block.
UsableCompleteEnds ==
    {c.ExclusiveEndBlock : c \in {d \in snapshots.Completes :
                                     d.ExclusiveEndBlock <= plan.reqStartBlock}}

BackProcessStart ==
    IF UsableCompleteEnds = {} THEN moduleInitialBlock ELSE MaxOfSet(UsableCompleteEnds)

\* C1: for requestStart > moduleInitialBlock the planned ranges (missing and
\* present together, sorted by start) are pairwise disjoint and contiguous,
\* begin at backProcessStart, end exactly at requestStart, and each range
\* [ptr, end) has end = min(next save-interval multiple above ptr, requestStart).
C1_PlannedRangesTileBackProcess ==
    StoresPlanned =>
        LET all == SortByStart(PlannedRanges(plan.work))
            n == Len(all)
        IN  /\ n = Len(plan.work.partialsMissing) + Len(plan.work.partialsPresent)
            /\ (n = 0) <=> (BackProcessStart = plan.reqStartBlock)
            /\ n > 0 => /\ all[1].StartBlock = BackProcessStart
                        /\ all[n].ExclusiveEndBlock = plan.reqStartBlock
            /\ \A i \in 1..(n - 1) : all[i].ExclusiveEndBlock = all[i + 1].StartBlock
            /\ \A i \in 1..n :
                 /\ all[i].StartBlock < all[i].ExclusiveEndBlock
                 /\ all[i].ExclusiveEndBlock =
                        Smaller(NextBoundaryAbove(all[i].StartBlock, plan.saveInterval),
                                plan.reqStartBlock)

\* A plan that starts at a complete snapshot, has missing and present ranges
\* and ends with a range cut short by the request's start block.
C1_Witness ==
    /\ StoresPlanned
    /\ BackProcessStart > moduleInitialBlock
    /\ Len(plan.work.partialsMissing) >= 1
    /\ Len(plan.work.partialsPresent) >= 1
    /\ plan.reqStartBlock % plan.saveInterval # 0

S4Expected ==
    [modName |-> "m",
     initialStoreFile |-> Nil,
     partialsMissing |-> <<NewRange(0, 1000), NewRange(2000, 3000), NewRange(3000, 3500)>>,
     partialsPresent |-> <<NewRange(1000, 2000)>>]

\* C2: every planned range is in exactly one of partialsPresent and
\* partialsMissing, in partialsPresent iff the snapshots index holds a partial
\* file with exactly that range; each list is in ascending start order; and
\* scenario S4 yields the expected work unit.
C2_PresentIffPartialOnStorage ==
    plan.fn = "StoresSplitWork" =>
        /\ \A r \in SeqToSet(plan.work.partialsPresent) : r \in snapshots.Partials
        /\ \A r \in SeqToSet(plan.work.partialsMissing) : r \notin snapshots.Partials
        /\ SeqToSet(plan.work.partialsPresent) \cap SeqToSet(plan.work.partialsMissing) = {}
        /\ AscendingStarts(plan.work.partialsPresent)
        /\ AscendingStarts(plan.work.partialsMissing)
        /\ IsS4 => plan.work = S4Expected

\* Scenario S4 planned: three missing ranges around the one present partial.
C2_Witness ==
    /\ IsS4
    /\ plan.fn = "StoresSplitWork"
    /\ Len(plan.work.partialsMissing) = 3
    /\ Len(plan.work.partialsPresent) = 1

\* C3: initialStoreFile is [moduleInitialBlock, S.end) exactly when a latest
\* complete snapshot S with S.end <= requestStart exists, nil otherwise; when
\* S.end = requestStart the work unit has no missing and no present partials.
C3_InitialStoreFileIsLatestComplete ==
    (plan.fn = "StoresSplitWork" /\ ~plan.panicked) =>
        /\ (UsableCompleteEnds = {}) <=> (plan.work.initialStoreFile = Nil)
        /\ UsableCompleteEnds # {} =>
             /\ plan.work.initialStoreFile =
                    <<NewRange(moduleInitialBlock, MaxOfSet(UsableCompleteEnds))>>
             /\ MaxOfSet(UsableCompleteEnds) = plan.reqStartBlock =>
                    /\ plan.work.partialsMissing = <<>>
                    /\ plan.work.partialsPresent = <<>>

\* Two complete snapshots on storage, the later one ending at the request's
\* start block.
C3_Witness ==
    /\ plan.fn = "StoresSplitWork"
    /\ Cardinality(snapshots.Completes) = 2
    /\ plan.work.initialStoreFile # Nil
    /\ plan.work.initialStoreFile[1].ExclusiveEndBlock = plan.reqStartBlock
    /\ snapshots.Partials # {}

(***************************************************************************)
(* Properties of Range.Split.                                              *)
(***************************************************************************)
\* Split returned for a range with start <= end and a chunk size of at least 1.
SplitReturned ==
    /\ split.pc = "done"
    /\ split.r.StartBlock <= split.r.ExclusiveEndBlock
    /\ split.chunkSize >= 1

\* C4: for s <= e and k >= 1, r.Split(k) returns ranges in ascending order,
\* every block of r is in exactly one returned range, no returned range holds
\* a block outside r, every returned range but the last has size exactly k and
\* the last has size at most k.
C4_SplitPartitionsRange ==
    SplitReturned =>
        LET res == split.res
            n == Len(res)
        IN  /\ n >= 1
            /\ \A i \in 1..n : res[i].StartBlock <= res[i].ExclusiveEndBlock
            /\ \A i \in 1..(n - 1) : res[i].StartBlock < res[i + 1].StartBlock
            /\ \A b \in 0..(MaxBlock + MaxChunk) :
                 Cardinality({i \in 1..n : Contains(res[i], b)}) =
                     IF Contains(split.r, b) THEN 1 ELSE 0
            /\ \A i \in 1..(n - 1) : Size(res[i]) = split.chunkSize
            /\ Size(res[n]) <= split.chunkSize

\* A split into at least three chunks whose last chunk is short.
C4_Witness ==
    /\ SplitReturned
    /\ Len(split.res) >= 3
    /\ Size(split.res[Len(split.res)]) < split.chunkSize
    /\ Size(split.res[Len(split.res)]) >= 1

(***************************************************************************)
(* Properties of Instance.Execute and Instance.ExecuteWithArgs.            *)
(***************************************************************************)
CleanReturn(outcome) ==
    \/ outcome.kind = "return"
    \/ outcome.kind = "exit" /\ outcome.exitCode = 0

\* C5: Execute / ExecuteWithArgs returns success iff the entry point returned
\* normally or exited with code 0 and no panic is recorded in the panic slot;
\* whenever the panic slot is set the returned error is the recorded panic.
C5_ExecuteSucceedsIffCleanAndNoPanic ==
    inst.pc = "returned" =>
        /\ (inst.err = NoError) <=> (CleanReturn(inst.outcome) /\ inst.panicError = Nil)
        /\ inst.panicError # Nil =>
             /\ inst.err.kind = "panic"
             /\ inst.err.panic = inst.panicError

(***************************************************************************)
(* Properties of MapperModuleExecutor.run and wasmCall                     *)
(***************************************************************************)
\* C6: once run has succeeded for a block b of the current cache chunk, a
\* later run for b, whatever happened to the values map and to the current
\* instance in between, returns no error, calls NewInstance not at all,
\* writes nothing to the cache and leaves moduleOutputData reporting exactly
\* the bytes the first run cached for b.
C6_RerunServedFromCache ==
    (run.ran /\ run.priorSuccess) =>
        /\ run.err = NoErr
        /\ ~run.newInstance
        /\ ~run.cacheWrite
        /\ cacheGet(cache, run.block) = firstCached[run.block]
        /\ mapperModuleOutputData(mapperOutput)
               = mapperModuleOutputData(firstCached[run.block][1])

\* A rerun of a block whose first run cached the byte 1, after the values map
\* was wiped, the executor Reset and another output held in between.
C6_Witness ==
    /\ run.ran /\ run.priorSuccess
    /\ firstCached[run.block] = <<BytesOf(<<1>>)>>
    /\ vals[ModuleName] = NilBytes
    /\ currentInstance = Nil
    /\ \E b \in DOMAIN firstCached :
          b # run.block /\ firstCached[b] = <<BytesOf(<<2>>)>>

\* C7: after run returns without error for block b, values[moduleName] holds
\* the module's output for b, on a cache hit as after a WASM execution.
C7_ValuesHoldModuleOutput ==
    (run.ran /\ run.err = NoErr) => vals[ModuleName] = mapperOutput

\* The same statement restricted to runs that missed the cache.
C7_ValuesHoldOutputOnMiss ==
    (run.ran /\ run.err = NoErr /\ ~run.hit) => vals[ModuleName] = mapperOutput

\* The inputs that make wasmCall execute according to the contract: a source
\* input with non-empty bytes, or a store bound in get mode.
ContractHasInput(inputs, v) ==
    \E i \in 1..Len(inputs) :
        \/ inputs[i].Type = "InputSource" /\ len(v[inputs[i].Name]) # 0
        \/ inputs[i].Type = "InputStore" /\ ~inputs[i].Deltas

\* The same, counting every bound store whatever its mode.
AnyStoreHasInput(inputs, v) ==
    \E i \in 1..Len(inputs) :
        \/ inputs[i].Type = "InputSource" /\ len(v[inputs[i].Name]) # 0
        \/ inputs[i].Type = "InputStore"

\* C8: on a cache miss, NewInstance is called if and only if a source input
\* has non-empty bytes or a store is bound in get mode; otherwise no instance
\* is created and the mapper's output and values[moduleName] are empty.
C8_InstanceIffSourceOrGetStore ==
    (run.ran /\ ~run.hit) =>
        /\ run.newInstance <=> ContractHasInput(wasmInputs, vals)
        /\ ~ContractHasInput(wasmInputs, vals) =>
              /\ len(mapperOutput) = 0
              /\ len(vals[ModuleName]) = 0

\* What the code does: a store bound in deltas mode counts as an input too.
C8_InstanceIffSourceOrAnyStore ==
    (run.ran /\ ~run.hit) =>
        /\ run.newInstance <=> AnyStoreHasInput(wasmInputs, vals)
        /\ ~AnyStoreHasInput(wasmInputs, vals) =>
              /\ len(mapperOutput) = 0
              /\ len(vals[ModuleName]) = 0

\* A miss that skipped execution: no instance, empty output cached.
C8_SkipReached ==
    /\ run.ran /\ ~run.hit /\ ~run.newInstance /\ run.cacheWrite
    /\ mapperOutput = NilBytes

(***************************************************************************)
(* Properties of StoreModuleExecutor.run                                   *)
(***************************************************************************)
\* A kv as its keys and the content of their values (a nil and an empty value
\* are the same content).
kvContent(kv) == [k \in Keys |-> IF kv[k] = Nil THEN Nil ELSE <<kv[k][1].data>>]

\* A delta journal as the StoreDeltas message it is.
deltasContent(deltas) == unmarshalDeltas(marshalDeltas(deltas))

StoredNumber(key) ==
    ParseAs(outputStore.valueType, GetAt(outputStore, 0, key).value.data)

\* C10: after any sequence of SetMaxInt64, SetMaxBigInt, SetMaxFloat64 or
\* SetMaxBigFloat writes to a key, GetAt finds the key and its value is the
\* text of the maximum of the key's initial number (if any) and all written
\* candidates; the last write stored its candidate when the key was missing,
\* replaced a smaller number, and left a larger or equal one unchanged.
C10_SetMaxKeepsMaximum ==
    /\ \A k \in Keys :
          written.wrote[k] =>
             /\ GetAt(outputStore, 0, k).found
             /\ GetAt(outputStore, 0, k).value.data
                    = FormatAs(outputStore.valueType, MaxOfSet(written.seen[k]))
             /\ StoredNumber(k) = MaxOfSet(written.seen[k])
    /\ written.last # Nil =>
          LET w == written.last[1]
          IN  IF w.old = Nil
              THEN StoredNumber(w.key) = w.value
              ELSE IF w.value > ParseAs(outputStore.valueType, w.old[1].data)
              THEN StoredNumber(w.key) = w.value
              ELSE outputStore.kv[w.key] = w.old

\* Scenario S1 on a missing key, in a float64 store in halves: 3.5, then 10,
\* then 4 leave 10, with three deltas recorded.
C10_Witness ==
    /\ outputStore.valueType = "float64"
    /\ written.seen[<<1>>] = {7, 8, 20}
    /\ written.last # Nil /\ written.last[1].value = 8
    /\ written.last[1].key = <<1>>
    /\ Len(outputStore.Deltas) = 3
    /\ \A i \in 1..3 : outputStore.Deltas[i].Key = <<1>>
    /\ outputStore.Deltas[1].Operation = "CREATE"
    /\ outputStore.Deltas[1].NewValue.data = <<"3", ".", "5">>
    /\ outputStore.kv[<<1>>] = <<BytesOf(<<"1", "0">>)>>


\* C11: a store write whose operation does not match the store's
\* updatePolicy (a SetMax write to a store not created with the max policy)
\* fails and leaves the store's kv and deltas unchanged.
C11_MismatchedWriteFails ==
    (written.last # Nil /\ outputStore.updatePolicy # "MAX") =>
        /\ written.last[1].failed
        /\ outputStore.kv[written.last[1].key] = written.last[1].old
        /\ outputStore.Deltas = written.last[1].deltasBefore

\* The "found less" test: a store of policy unset holding 3 takes
\* SetMaxInt64 of 4 and then holds 4.
C11_TestFoundLess ==
    /\ outputStore.updatePolicy = "UNSET" /\ outputStore.valueType = "int64"
    /\ written.last # Nil
    /\ written.last[1].old = <<BytesOf(<<"3">>)>>
    /\ written.last[1].value = 4
    /\ GetAt(outputStore, 0, written.last[1].key)
           = [value |-> BytesOf(<<"4">>), found |-> TRUE]


(***************************************************************************)
(* Properties of a failed WASM execution                                   *)
(***************************************************************************)
\* C12: when WASM execution fails for block b in module m, run returns an
\* error that carries b and m and writes no cache entry for b; a run for b
\* that follows the failure misses the cache, and every cache hit serves an
\* entry that a successful run wrote.
C12_FailureWrappedAndNotCached ==
    /\ ExecutionFailed =>
          /\ run.err.block = run.block
          /\ run.err.module = ModuleName
          /\ ~run.cacheWrite
          /\ cacheGet(cache, run.block) = Nil
    /\ (run.ran /\ run.failedAt = <<run.block>>) => ~run.hit
    /\ (run.ran /\ run.hit) => run.priorSuccess

\* The run for block 1 that follows a failed execution of block 1 executes
\* again and succeeds, while block 0 is cached.
C12_Witness ==
    /\ run.ran /\ run.block = 1 /\ run.failedAt = <<1>>
    /\ run.newInstance /\ run.cacheWrite /\ run.err = NoErr
    /\ cacheGet(cache, 0) # Nil

\* The same for StoreModuleExecutor.run: the failure carries block and
\* module, nothing is cached for the block, and a hit serves a successful
\* run's deltas.
C12_StoreFailureWrappedAndNotCached ==
    /\ ExecutionFailed =>
          /\ run.err.block = run.block
          /\ run.err.module = ModuleName
          /\ ~run.cacheWrite
          /\ cacheGet(cache, run.block) = Nil
    /\ (run.ran /\ run.hit) => storeLog[run.block] # Nil

\* A store run that failed in its second block after the guest's writes.
C12_StoreFailureReached ==
    /\ ExecutionFailed /\ run.block = 1
    /\ outputStore.Deltas # <<>>


(***************************************************************************)
(* Properties of WorkPlan.ProgressMessages and MapsSplitWork               *)
(***************************************************************************)
ProgressReported == plan.progress # Nil

\* C13: ProgressMessages emits exactly one message for every module of the
\* work plan, with or without an initial store file; its processedRanges are
\* the initial store file's range (when there is one) followed by the merged
\* partialsPresent of the module.
C13_OneProgressMessagePerModule ==
    ProgressReported =>
        \A n \in DOMAIN RequestWorkPlan :
            /\ Cardinality({m \in plan.progress[1] : m.Name = n}) = 1
            /\ \A m \in plan.progress[1] :
                  m.Name = n => m.ProcessedRanges = processedRanges(RequestWorkPlan[n])

\* What the code does: the same, for the modules that have an initial store
\* file; the others get no message.
C13_MessageOnlyWithInitialFile ==
    ProgressReported =>
        \A n \in DOMAIN RequestWorkPlan :
            /\ Cardinality({m \in plan.progress[1] : m.Name = n}) =
                   IF RequestWorkPlan[n].initialStoreFile # Nil THEN 1 ELSE 0
            /\ \A m \in plan.progress[1] :
                  m.Name = n => m.ProcessedRanges = processedRanges(RequestWorkPlan[n])

\* A module with partials present and no initial store file, reported.
C13_NoInitialFileReached ==
    /\ ProgressReported
    /\ plan.work.initialStoreFile = Nil
    /\ plan.work.partialsPresent # <<>>

\* A message that holds the initial file and two partials merged into one range.
C13_MergedReached ==
    /\ ProgressReported
    /\ Len(plan.work.partialsPresent) >= 2
    /\ \E m \in plan.progress[1] : Len(m.ProcessedRanges) = 2


MapsPlanned == plan.fn = "MapsSplitWork"

CompleteSnapshotExists ==
    LastCompleteSnapshotBefore(snapshots, plan.reqStartBlock) # Nil

\* C14: for the same saveInterval, requestStart and snapshots index,
\* MapsSplitWork yields the partialsMissing and partialsPresent that
\* StoresSplitWork yields for a module whose initial block is below
\* requestStart, with and without a complete snapshot.
C14_MapsPlanEqualsStoresPlan ==
    (MapsPlanned /\ moduleInitialBlock < plan.reqStartBlock) =>
        /\ plan.mapWork.partialsMissing = plan.work.partialsMissing
        /\ plan.mapWork.partialsPresent = plan.work.partialsPresent

\* What the code does: the two plans agree when a complete snapshot exists,
\* and without one MapsSplitWork plans nothing.
C14_EqualWithCompleteSnapshotOnly ==
    (MapsPlanned /\ moduleInitialBlock < plan.reqStartBlock) =>
        IF CompleteSnapshotExists
        THEN /\ plan.mapWork.partialsMissing = plan.work.partialsMissing
             /\ plan.mapWork.partialsPresent = plan.work.partialsPresent
        ELSE /\ plan.mapWork.partialsMissing = <<>>
             /\ plan.mapWork.partialsPresent = <<>>

\* Without a complete snapshot the store's plan has partials of both kinds.
C14_NoCompleteSnapshotReached ==
    /\ MapsPlanned /\ ~CompleteSnapshotExists
    /\ plan.work.partialsMissing # <<>>
    /\ plan.work.partialsPresent # <<>>

\* With a complete snapshot both plans have partials of both kinds.
C14_CompleteSnapshotReached ==
    /\ MapsPlanned /\ CompleteSnapshotExists
    /\ plan.mapWork.partialsMissing # <<>>
    /\ plan.mapWork.partialsPresent # <<>>

NonEmptyRange(r) == r.StartBlock < r.ExclusiveEndBlock

\* Every range of the work unit is a non-empty half-open range.
RangesNonEmpty(w) ==
    /\ w.initialStoreFile # Nil => NonEmptyRange(w.initialStoreFile[1])
    /\ \A i \in 1..Len(w.partialsMissing) : NonEmptyRange(w.partialsMissing[i])
    /\ \A i \in 1..Len(w.partialsPresent) : NonEmptyRange(w.partialsPresent[i])

\* C15: every range that StoresSplitWork or MapsSplitWork places in a
\* WorkUnit (initialStoreFile when set, every partialsMissing and
\* partialsPresent entry) has StartBlock < ExclusiveEndBlock.
C15_PlannedRangesNonEmpty ==
    /\ StoresPlanned => RangesNonEmpty(plan.work)
    /\ MapsPlanned => RangesNonEmpty(plan.mapWork)

\* What the code does: StoresSplitWork's ranges and MapsSplitWork's partials
\* are non-empty, and MapsSplitWork's initialStoreFile never is.
C15_AllButMapsInitialFile ==
    /\ StoresPlanned => RangesNonEmpty(plan.work)
    /\ MapsPlanned =>
          /\ RangesNonEmpty([plan.mapWork EXCEPT !.initialStoreFile = Nil])
          /\ plan.mapWork.initialStoreFile # Nil =>
                ~NonEmptyRange(plan.mapWork.initialStoreFile[1])

\* MapsSplitWork with a complete snapshot that ends below the request start.
C15_MapsInitialFileReached ==
    /\ MapsPlanned
    /\ plan.mapWork.initialStoreFile # Nil
    /\ plan.mapWork.initialStoreFile[1].StartBlock
           > plan.mapWork.initialStoreFile[1].ExclusiveEndBlock

(***************************************************************************)
(* Properties of NewSubstreamsClient.                                      *)
(***************************************************************************)
ClientReturned == client.called /\ ~client.panicked

DialedOptions == IF client.dial = Nil THEN {} ELSE SeqToSet(client.dial[1].dialOptions)

\* C16: with GRPC_XDS_BOOTSTRAP unset, the transport option NewSubstreamsClient
\* selects (plaintext credentials when plaintext is set, TLS without
\* verification when insecure is set) is among the dial options passed to
\* dgrpc.NewExternalClient, and with both flags set the call fails without
\* dialing.
C16_TransportOptionPassed ==
    (ClientReturned /\ client.bootstrap = "") =>
        LET config == client.config[1]
        IN  /\ (config.plaintext /\ config.insecure) =>
                   (client.err = ErrMutuallyExclusive /\ client.dial = Nil)
            /\ (config.plaintext /\ ~config.insecure) =>
                   (client.dial # Nil /\ PlaintextCredentials \in DialedOptions)
            /\ (config.insecure /\ ~config.plaintext) =>
                   (client.dial # Nil /\ InsecureTLSCredentials \in DialedOptions)

\* What the code does keep: with both flags set the call fails without
\* dialing, and every other call with the variable unset dials with the two
\* interceptors and no transport option.
C16_DialsWithInterceptorsOnly ==
    (ClientReturned /\ client.bootstrap = "") =>
        LET config == client.config[1]
        IN  IF config.plaintext /\ config.insecure
            THEN client.err = ErrMutuallyExclusive /\ client.dial = Nil
            ELSE client.dial # Nil /\ client.dial[1].dialOptions = Interceptors

C16_SelectedOptionReached ==
    /\ ClientReturned
    /\ client.bootstrap = ""
    /\ client.dial # Nil
    /\ client.selected = <<PlaintextCredentials>>

C16_MutuallyExclusiveReached ==
    /\ ClientReturned
    /\ client.bootstrap = ""
    /\ client.err = ErrMutuallyExclusive

(***************************************************************************)
(* Termination of Range.Split.                                             *)
(***************************************************************************)
SplitLooping == split.pc = "loop"

SplitDone == split.pc = "done"

\* C17: Range.Split terminates for every range and every chunkSize: a call
\* that entered the loop eventually returns its list.
C17_SplitTerminates == SplitLooping ~> SplitDone

\* With a chunk size above zero every call returns.
C17_TerminatesWithPositiveChunk ==
    (SplitLooping /\ split.chunkSize > 0) ~> SplitDone

\* With chunkSize zero and a non-empty range an iteration leaves the loop's
\* locals as they were and does not break: the loop only grows the list.
C17_ZeroChunkIterationStaysInLoop ==
    [][(/\ SplitLooping
        /\ split.chunkSize = 0
        /\ split.r.StartBlock < split.r.ExclusiveEndBlock)
       => (/\ split'.pc = "loop"
           /\ split'.currentStart = split.r.StartBlock
           /\ split'.currentEnd = split.r.StartBlock
           /\ Len(split'.res) >= Len(split.res))]_vars

\* Only such a call reaches the length at which the model stops following it.
C17_OnlyZeroChunkRunsOn ==
    (SplitLooping /\ Len(split.res) = MaxSplitLen) =>
        (split.chunkSize = 0 /\ split.r.StartBlock < split.r.ExclusiveEndBlock)

C17_ZeroChunkLoopReached ==
    /\ SplitLooping
    /\ split.chunkSize = 0
    /\ Len(split.res) = MaxSplitLen
    /\ \A i \in 1..Len(split.res) :
         split.res[i] = NewRange(split.r.StartBlock, split.r.StartBlock)

====
